---- MODULE Spec2Model ----
(***************************************************************************)
(* Model of the terminal agent of kingbootoshi/ai-os: the bounded action   *)
(* loop TerminalCore.runLoop (src/src/terminal/terminalCore.ts), the store *)
(* functions it calls (terminal_history, short_term_terminal_history,      *)
(* terminal_status) and the "notes" sub-command dispatcher                 *)
(* (src/src/features/notes/index.ts).                                      *)
(*                                                                         *)
(* Texts are sequences of string parts: a template literal `a ${x} b` is   *)
(* the sequence <<"a ", x, " b">>.  JavaScript values handed to handlers   *)
(* are tagged records [str |-> s], [num |-> n] or [undef |-> TRUE].        *)
(***************************************************************************)
EXTENDS Bags, Integers, Sequences, FiniteSets, TLC

\* ------------------------------------------------------------------ bounds
\* options.maxActions ranges over 0..MaxActionsBound
MaxActionsBound == 2
\* number of runLoop() invocations made on the TerminalCore
MaxRuns == 2
\* number of failures (store errors, throwing subscribers) injected in a behaviour
MaxFaults == 1
MaxFeatures == 2
MaxFullMessages == 2
\* a generic sub-command definition has at most MaxParams parameters
MaxParams == 2
\* a token list handed to the binder has at most MaxTokens tokens
MaxTokens == 3

\* ------------------------------------------------------- JavaScript values
\* the absent value of an object field / array element
Undefined == "<undefined>"
\* mutant: only the empty string counts as missing
FalsyEmptyOnly(v) == v = ""
\* !v for the string-or-undefined values of the model
Falsy(v) == v = Undefined \/ v = ""

StrVal(s) == [str |-> s]
NumVal(n) == [num |-> n]
UndefVal == [undef |-> TRUE]

Range(s) == {s[k] : k \in 1..Len(s)}

\* a text is non-empty when one of its parts is
NonEmptyText(t) == \E k \in 1..Len(t) : t[k] # ""

\* ------------------------------------------------- proposals (tool calls)
ToolName == "execute_terminal_command"

\* The command lines the inference collaborator may propose.
CmdCreate == "notes create-note a b"
CmdDelete == "notes delete-note xyz"
Commands == {CmdCreate, CmdDelete}

\* functionArgs is an object, a JSON string of that object, or a string that
\* is no JSON; obj is the object (each field a string or Undefined).
ArgForms == {"object", "json", "badjson"}
ArgObjects ==
  [thought : {Undefined, "", "t"}, plan : {Undefined, "", "p"},
   command : {Undefined, ""} \cup Commands]
FunctionCalls ==
  [functionName : {ToolName, "other_tool"}, form : ArgForms, obj : ArgObjects]

\* what agent.run() resolves to
AgentResults ==
  {[success |-> FALSE, functionCalls |-> <<>>],
   [success |-> TRUE, functionCalls |-> <<>>]}
  \cup {[success |-> TRUE, functionCalls |-> <<fc>>] : fc \in FunctionCalls}

RequiredFields == <<"thought", "plan", "command">>

\* index of the first required field that is falsy, 0 when there is none
FirstMissing(obj) ==
  IF \E k \in 1..Len(RequiredFields) : Falsy(obj[RequiredFields[k]])
  THEN CHOOSE k \in 1..Len(RequiredFields) :
         /\ Falsy(obj[RequiredFields[k]])
         /\ \A j \in 1..(k - 1) : ~Falsy(obj[RequiredFields[j]])
  ELSE 0

\* mutant: the required-field check is dropped
parseFunctionCallNoFieldCheck(fc) ==
  IF fc.functionName # ToolName
  THEN [threw |-> TRUE, message |-> <<"Invalid function name: ", fc.functionName>>,
        args |-> fc.obj]
  ELSE IF fc.form = "badjson"
  THEN [threw |-> TRUE, message |-> <<"Failed to parse function arguments as JSON">>,
        args |-> fc.obj]
  ELSE [threw |-> FALSE, message |-> <<>>, args |-> fc.obj]

\* TerminalCore.parseFunctionCall: the parsed arguments, or the Error thrown
parseFunctionCall(fc) ==
  IF fc.functionName # ToolName
  THEN [threw |-> TRUE, message |-> <<"Invalid function name: ", fc.functionName>>,
        args |-> fc.obj]
  ELSE IF fc.form = "badjson"
  THEN [threw |-> TRUE, message |-> <<"Failed to parse function arguments as JSON">>,
        args |-> fc.obj]
  ELSE IF FirstMissing(fc.obj) # 0
  THEN [threw |-> TRUE,
        message |-> <<"Missing required field: ", RequiredFields[FirstMissing(fc.obj)]>>,
        args |-> fc.obj]
  ELSE [threw |-> FALSE, message |-> <<>>, args |-> fc.obj]

\* ------------------------------------------------ notes sub-command registry
Param(n, d, r, t) ==
  [name |-> n, description |-> d, required |-> r, type |-> t, defaultValue |-> Undefined]

createNoteCommand ==
  [name |-> "create-note",
   description |-> "Create a new note. Usage: notes create-note \"<note content>\"",
   parameters |-> <<Param("content", "Note content (wrap in quotes)", TRUE, "string")>>]

editNoteCommand ==
  [name |-> "edit-note",
   description |-> "Edit an existing note. Usage: notes edit-note <note-id> \"<new content>\"",
   parameters |-> <<Param("noteId", "ID of the note to edit", TRUE, "number"),
                    Param("content", "New content (wrap in quotes)", TRUE, "string")>>]

deleteNoteCommand ==
  [name |-> "delete-note",
   description |-> "Delete a note by ID. Usage: notes delete-note <note-id>",
   parameters |-> <<Param("noteId", "ID of the note to delete", TRUE, "number")>>]

listNotesCommand ==
  [name |-> "list-notes", description |-> "List all notes (up to 50)",
   parameters |-> <<>>]

searchNoteCommand ==
  [name |-> "search-note",
   description |-> "Search notes semantically. Usage: notes search-note \"<query>\"",
   parameters |-> <<Param("query", "Search query (wrap in quotes)", TRUE, "string")>>]

notesSubCommands ==
  <<createNoteCommand, editNoteCommand, deleteNoteCommand, listNotesCommand,
    searchNoteCommand>>

\* mutant: a name that is not found falls back to the first nested command
FindSubCommandOrFirst(n) ==
  IF \E k \in 1..Len(notesSubCommands) : notesSubCommands[k].name = n
  THEN CHOOSE k \in 1..Len(notesSubCommands) : notesSubCommands[k].name = n
  ELSE 1
\* notesSubCommands.find(sc => sc.name === n): index of the first match, 0 if none
FindSubCommand(n) ==
  IF \E k \in 1..Len(notesSubCommands) : notesSubCommands[k].name = n
  THEN CHOOSE k \in 1..Len(notesSubCommands) :
         /\ notesSubCommands[k].name = n
         /\ \A j \in 1..(k - 1) : notesSubCommands[j].name # n
  ELSE 0

\* ------------------------------------------------------------ string helpers
\* mutant: only the token at the cursor is taken
JoinFromFirstOnly(toks, from0) == IF from0 + 1 > Len(toks) THEN "" ELSE toks[from0 + 1]
\* toks.slice(from0).join(' ') with from0 a 0-based index
RECURSIVE JoinFrom(_, _)
JoinFrom(toks, from0) ==
  IF from0 + 1 > Len(toks) THEN ""
  ELSE IF from0 + 1 = Len(toks) THEN toks[from0 + 1]
  ELSE toks[from0 + 1] \o " " \o JoinFrom(toks, from0 + 1)

\* s.padEnd(n)
RECURSIVE PadEnd(_, _)
PadEnd(s, n) == IF Len(s) >= n THEN s ELSE PadEnd(s \o " ", n)

\* lines.join('\n') as a text
RECURSIVE JoinLines(_)
JoinLines(lines) ==
  IF Len(lines) = 0 THEN <<>>
  ELSE IF Len(lines) = 1 THEN <<lines[1]>>
  ELSE <<lines[1], "\n">> \o JoinLines(Tail(lines))

\* mutant: a token that is no number counts as 0
NumberTableZeroForWords ==
  ("42" :> 42) @@ ("7" :> 7) @@ ("0" :> 0) @@ ("" :> 0) @@ ("xyz" :> 0)
\* Number(tok) for the tokens of the model; a token outside the table is NaN
NumberTable == ("42" :> 42) @@ ("7" :> 7) @@ ("0" :> 0) @@ ("" :> 0)
IsNaNToken(tok) == tok \notin DOMAIN NumberTable

\* padEnd column of the general help listing
HelpPad == 30

\* mutant: every parameter is shown as required
formatParamStringAllRequired(param) == "<" \o param.name \o ">"
formatParamString(param) ==
  IF param.required THEN "<" \o param.name \o ">" ELSE "[" \o param.name \o "]"

\* cmd.parameters?.map(formatParamString).join(' ') || ''
RECURSIVE ParamStringFrom(_, _)
ParamStringFrom(params, k) ==
  IF k > Len(params) THEN ""
  ELSE IF k = Len(params) THEN formatParamString(params[k])
  ELSE formatParamString(params[k]) \o " " \o ParamStringFrom(params, k + 1)
ParamString(cmd) == ParamStringFrom(cmd.parameters, 1)

\* ------------------------------------------------------- notes dispatcher
\* what a nested handler does when called: returns { output }, returns
\* nothing, or throws
HandlerOutcomes == {"output", "undefined", "throw"}
HandlerOutput == <<"handler output">>
HandlerError == "Error: handler failed"

Thrown(msg) == [threw |-> TRUE, error |-> msg, output |-> <<>>, called |-> FALSE,
                values |-> <<>>]
Returned(out, wasCalled, vals) ==
  [threw |-> FALSE, error |-> <<>>, output |-> out, called |-> wasCalled,
   values |-> vals]

\* mutant: an unfilled parameter with a declared default gets the default
RECURSIVE BindFromApplyDefault(_, _, _, _, _)
BindFromApplyDefault(params, i, tokenIndex0, toks, acc) ==
  IF i > Len(params) THEN [threw |-> FALSE, error |-> <<>>, values |-> acc]
  ELSE
    LET param == params[i]
        isLastParam == i = Len(params)
        slurp == /\ isLastParam
                 /\ param.required
                 /\ (param.type = "string" \/ param.type = Undefined)
        token == IF slurp THEN JoinFrom(toks, tokenIndex0)
                 ELSE IF tokenIndex0 + 1 <= Len(toks) THEN toks[tokenIndex0 + 1]
                 ELSE Undefined
        raw == IF token = Undefined /\ param.defaultValue # Undefined
               THEN param.defaultValue ELSE token
        next0 == IF slurp THEN tokenIndex0 ELSE tokenIndex0 + 1
    IN IF ~slurp /\ Falsy(raw) /\ param.required
       THEN [threw |-> TRUE,
             error |-> <<"Missing required parameter: ", param.name>>,
             values |-> acc]
       ELSE IF param.type = "number" /\ raw # Undefined
       THEN IF IsNaNToken(raw)
            THEN [threw |-> TRUE,
                  error |-> <<"Parameter '", param.name, "' must be a number.">>,
                  values |-> acc]
            ELSE BindFromApplyDefault(params, i + 1, next0, toks,
                                      (param.name :> NumVal(NumberTable[raw])) @@ acc)
       ELSE BindFromApplyDefault(params, i + 1, next0, toks,
                     (param.name :> (IF raw = Undefined THEN UndefVal ELSE StrVal(raw)))
                       @@ acc)

\* The parameter loop of notes.handler from parameter i on, tokenIndex0 the
\* 0-based token cursor, acc the paramValues so far.
RECURSIVE BindFrom(_, _, _, _, _)
BindFrom(params, i, tokenIndex0, toks, acc) ==
  IF i > Len(params) THEN [threw |-> FALSE, error |-> <<>>, values |-> acc]
  ELSE
    LET param == params[i]
        isLastParam == i = Len(params)
        slurp == /\ isLastParam
                 /\ param.required
                 /\ (param.type = "string" \/ param.type = Undefined)
        raw == IF slurp THEN JoinFrom(toks, tokenIndex0)
               ELSE IF tokenIndex0 + 1 <= Len(toks) THEN toks[tokenIndex0 + 1]
               ELSE Undefined
        next0 == IF slurp THEN tokenIndex0 ELSE tokenIndex0 + 1
    IN IF ~slurp /\ Falsy(raw) /\ param.required
       THEN [threw |-> TRUE,
             error |-> <<"Missing required parameter: ", param.name>>,
             values |-> acc]
       ELSE IF param.type = "number" /\ raw # Undefined
       THEN IF IsNaNToken(raw)
            THEN [threw |-> TRUE,
                  error |-> <<"Parameter '", param.name, "' must be a number.">>,
                  values |-> acc]
            ELSE BindFrom(params, i + 1, next0, toks,
                          (param.name :> NumVal(NumberTable[raw])) @@ acc)
       ELSE BindFrom(params, i + 1, next0, toks,
                     (param.name :> (IF raw = Undefined THEN UndefVal ELSE StrVal(raw)))
                       @@ acc)

\* mutant: more tokens than parameters is an error
BindRejectSurplus(cmd, toks) ==
  IF Len(toks) > Len(cmd.parameters)
  THEN [threw |-> TRUE, error |-> <<"Too many arguments">>, values |-> <<>>]
  ELSE BindFrom(cmd.parameters, 1, 0, toks, <<>>)
\* mutant: the parameter loop starts at the second parameter
BindSkipFirst(cmd, toks) == BindFrom(cmd.parameters, 2, 0, toks, <<>>)
\* paramValues for a sub-command definition and the remaining tokens
Bind(cmd, toks) == BindFrom(cmd.parameters, 1, 0, toks, <<>>)

\* mutant: the help line of a parameter leaves out its type
ParamHelpLineNoType(param) ==
  "  " \o param.name \o ": " \o param.description \o " "
       \o (IF param.required THEN "(Required)" ELSE "(Optional)")
       \o (IF Falsy(param.defaultValue) THEN ""
           ELSE " [default: " \o param.defaultValue \o "]")
\* one "Parameters:" line of the help of a single sub-command
ParamHelpLine(param) ==
  "  " \o param.name
       \o (IF Falsy(param.type) THEN "" ELSE " <" \o param.type \o ">")
       \o ": " \o param.description \o " "
       \o (IF param.required THEN "(Required)" ELSE "(Optional)")
       \o (IF Falsy(param.defaultValue) THEN ""
           ELSE " [default: " \o param.defaultValue \o "]")

\* "notes help <cmdName>"
SubCommandHelp(cmd) ==
  JoinLines(
    <<"Command: notes " \o cmd.name,
      "Description: " \o cmd.description,
      "",
      "Usage:",
      "  notes " \o cmd.name \o " " \o ParamString(cmd),
      "">>
    \o (IF Len(cmd.parameters) > 0
        THEN <<"Parameters:">>
             \o [k \in 1..Len(cmd.parameters) |-> ParamHelpLine(cmd.parameters[k])]
        ELSE <<>>))

\* the line of the general help for the nested command sc
GeneralHelpLine(sc) ==
  PadEnd(sc.name \o " " \o ParamString(sc), HelpPad) \o " - " \o sc.description

\* "notes" and "notes help"
GeneralHelp ==
  JoinLines(
    <<"Available \"notes\" sub-commands:",
      "(Use \"notes help <command>\" for detailed parameter info)",
      "">>
    \o [k \in 1..Len(notesSubCommands) |-> GeneralHelpLine(notesSubCommands[k])])

\* mutant: the try/catch around the nested handler is missing
RunSubHandlerNoCatch(subcommand, vals, outcome) ==
  IF outcome = "throw" THEN [Thrown(<<HandlerError>>) EXCEPT !.called = TRUE, !.values = vals]
  ELSE IF outcome = "undefined"
  THEN Returned(<<"Command completed successfully.">>, TRUE, vals)
  ELSE Returned(HandlerOutput, TRUE, vals)

\* "Run the handler": the nested handler inside the try/catch of notes.handler
RunSubHandler(subcommand, vals, outcome) ==
  IF outcome = "throw"
  THEN Returned(<<"(x) Error executing subcommand \"", subcommand, "\": ", HandlerError>>,
                TRUE, vals)
  ELSE IF outcome = "undefined"
  THEN Returned(<<"Command completed successfully.">>, TRUE, vals)
  ELSE Returned(HandlerOutput, TRUE, vals)

\* mutant: a binding that failed is ignored and the handler runs
BindAndRunIgnoreFailure(cmd, subcommand, parsedArgs, outcome) ==
  RunSubHandler(subcommand, Bind(cmd, parsedArgs).values, outcome)
\* "Parse arguments" and "Run the handler" of notes.handler for the nested
\* command cmd found under the selector subcommand
BindAndRun(cmd, subcommand, parsedArgs, outcome) ==
  LET bound == Bind(cmd, parsedArgs)
  IN IF bound.threw THEN Thrown(bound.error)
     ELSE RunSubHandler(subcommand, bound.values, outcome)

\* notes.handler(args): args.subcommand is a token or Undefined, args.args the
\* array of the remaining tokens; outcome is what the nested handler does if
\* it is reached.
NotesHandler(args, outcome) ==
  LET subcommand == args.subcommand
      parsedArgs == args.args
  IN IF subcommand = "help" /\ Len(parsedArgs) > 0
     THEN IF FindSubCommand(parsedArgs[1]) = 0
          THEN Returned(<<"Unknown notes sub-command: ", parsedArgs[1],
                          ". Try \"notes help\" to see available commands.">>,
                        FALSE, <<>>)
          ELSE Returned(SubCommandHelp(notesSubCommands[FindSubCommand(parsedArgs[1])]),
                        FALSE, <<>>)
     ELSE IF Falsy(subcommand) \/ subcommand = "help"
     THEN Returned(GeneralHelp, FALSE, <<>>)
     ELSE IF FindSubCommand(subcommand) = 0
     THEN Returned(<<"Unknown notes sub-command: ", subcommand, ". Try \"notes help\".">>,
                   FALSE, <<>>)
     ELSE BindAndRun(notesSubCommands[FindSubCommand(subcommand)], subcommand,
                     parsedArgs, outcome)

\* ------------------------------------- inputs of the binder and dispatcher
\* the tokens of a command line: a word that is no number, and a number
TokenValues == {"xyz", "42"}
TokenListsOver(values) == UNION {[1..n -> values] : n \in 0..MaxTokens}
BindTokenLists == TokenListsOver(TokenValues)
\* after the selector "help" a token may be the name of a nested command
DispatchTokenLists == TokenListsOver(TokenValues \cup {deleteNoteCommand.name})

\* args.subcommand: absent, "help", an unknown name, a nested command
Selectors ==
  {Undefined, "help", "zzz"} \cup {notesSubCommands[k].name : k \in 1..Len(notesSubCommands)}

\* A parameter of a definition: required or optional; typed string, number
\* or untyped; without a default, with the default '' or with the default 'd'.
ParamShapes ==
  [required : BOOLEAN, type : {"string", "number", Undefined},
   defaultValue : {Undefined, "", "d"}]
ParamName(k) == "p" \o ToString(k)
GenericParameters(n) ==
  {[k \in 1..n |->
      [name |-> ParamName(k), description |-> "about " \o ParamName(k),
       required |-> f[k].required, type |-> f[k].type,
       defaultValue |-> f[k].defaultValue]] : f \in [1..n -> ParamShapes]}
GenericDefinitions ==
  {[name |-> "generic", description |-> "A generic sub-command", parameters |-> ps] :
     ps \in UNION {GenericParameters(n) : n \in 0..MaxParams}}
\* the definitions handed to the binder: the registry's and the generic ones
Definitions == GenericDefinitions \cup Range(notesSubCommands)

\* ------------------------------------------------------- command executor
\* The top-level command registry: NotesFeature.loadFeatureCommands
RegisteredCommands == {"notes"}

\* The command line split at blanks (this repository's executeCommand is not
\* among the sources; the split follows the specification).
Tokenize(commandLine) ==
  CASE commandLine = CmdCreate -> <<"notes", "create-note", "a", "b">>
    [] commandLine = CmdDelete -> <<"notes", "delete-note", "xyz">>
    [] OTHER -> <<commandLine>>

\* executeCommand once the command line is split into toks: looks the
\* command up, hands the selector and the remaining tokens to its handler and
\* converts anything thrown into a result.
executeTokens(toks, outcome) ==
  LET r == NotesHandler([subcommand |-> IF Len(toks) >= 2 THEN toks[2] ELSE Undefined,
                         args |-> IF Len(toks) >= 3 THEN SubSeq(toks, 3, Len(toks))
                                  ELSE <<>>],
                        outcome)
  IN IF toks[1] \notin RegisteredCommands
     THEN [threw |-> FALSE, output |-> <<"Unknown command: ", toks[1]>>]
     ELSE IF r.threw
     THEN [threw |-> FALSE, output |-> <<"Error executing command: ">> \o r.error]
     ELSE [threw |-> FALSE, output |-> r.output]

\* executeCommand(commandLine)
executeCommand(commandLine, outcome) == executeTokens(Tokenize(commandLine), outcome)

\* the try/catch of terminalCommandTool.execute around executeCommand:
\* { result: result.output }, or the error rethrown
executeResult(result) ==
  IF result.threw THEN [threw |-> TRUE, result |-> <<>>]
  ELSE [threw |-> FALSE, result |-> result.output]

\* executeCommand rejects instead of returning a result
executeRejected == [threw |-> TRUE, output |-> <<>>]
ExecuteError == <<"execute failed">>

\* terminalCommandTool.execute(args); returns tells whether executeCommand
\* returns a result or rejects
execute(args, outcome, returns) ==
  executeResult(IF returns THEN executeCommand(args.command, outcome) ELSE executeRejected)

\* ---------------------------------------------------------------- messages
Timestamp == "ts"
AssistantMessage(args) ==
  <<"[THOUGHT]\n ", args.thought, "\n\n[PLAN]\n ", args.plan, "\n\n[COMMAND]\n ",
    args.command>>
UserMessage(result) == <<"[", Timestamp, " - TERMINAL LOG]\n\n">> \o result
ErrorMessage(message) == <<"Error executing command: ">> \o message
StoreError == <<"store error">>
SubscriberError == <<"subscriber error">>

\* ------------------------------------------------------------------- state
Inv == 1..MaxRuns

VARIABLES
  pc,               \* per invocation: the await runLoop is suspended at
  pending,          \* per invocation: features whose commands are still to load
  callSession,      \* per invocation: this.sessionId as passed to the store
                    \* call in flight (0: no such call in flight)
  maxActions,       \* TerminalCore.maxActions
  sessionId,        \* TerminalCore.sessionId (0: the constructor's random id)
  actionCount,      \* TerminalCore.actionCount
  agent,            \* TerminalCore.agent: the invocation that created it, 0 before
  agentCtx,         \* per FeatherAgent: the messages given to addUserMessage
  parsedArgs,       \* per invocation: const parsedArgs
  entryId,          \* per invocation: const entryId (0: null)
  userMessage,      \* per invocation: const userMessage
  terminal_status,  \* terminal_status.is_active
  terminal_history, \* rows of terminal_history, the id of a row is its index
  short_term,       \* rows of short_term_terminal_history
  uuids,            \* number of ids drawn from crypto.randomUUID()
  command,          \* the command line the collaborator's proposals carry
  handlerOutcome,   \* what the nested handler does when it is called
  faults,           \* number of failures injected so far
  log,              \* per invocation: what it has done so far, in order
  lastEmit,         \* the event emitted last and the payload its listeners got
  fullCalls,        \* number of storeFullMessage calls made
  fullInFlight,     \* the rows of the storeFullMessage inserts in flight (a bag)
  definition,       \* the sub-command definition handed to the binder
  selector,         \* args.subcommand of a call of notes.handler
  tokens,           \* args.args: the tokens after the selector
  result            \* what the call of the binder or of notes.handler gave

loopVars == <<pc, pending, callSession, maxActions, sessionId, actionCount, agent, agentCtx, parsedArgs,
              entryId, userMessage, terminal_status, terminal_history, short_term,
              uuids, command, handlerOutcome, faults, log, lastEmit>>
notesVars == <<definition, selector, tokens, result>>
storeVars == <<fullCalls, fullInFlight>>
vars == <<loopVars, notesVars, storeVars>>

NoArgs == [thought |-> Undefined, plan |-> Undefined, command |-> Undefined]

Running(i) == pc[i] \notin {"idle", "done", "rejected", "gone"}
Finished(i) == pc[i] \in {"done", "rejected"}

\* the results a store call or a subscriber may have after f failures
Oks(f) == IF f < MaxFaults THEN BOOLEAN ELSE {TRUE}
Fail(f, ok) == IF ok THEN f ELSE f + 1

\* the function calls the collaborator may return in this behaviour
FunctionCallsNow == {fc \in FunctionCalls : fc.obj.command \in {Undefined, "", command}}
AgentResultsNow ==
  {r \in AgentResults :
     Len(r.functionCalls) = 0 \/ r.functionCalls[1] \in FunctionCallsNow}

\* nothing has been emitted
NoEmit == [event |-> "none", payload |-> <<>>]
\* mutant: the two texts of the payload are exchanged
IterationEventSwapped(assistantMessage, userMsg) ==
  [event |-> "loop:iteration",
   payload |-> [assistantMessage |-> userMsg, userMessage |-> assistantMessage]]
\* this.emit('loop:iteration', { assistantMessage, userMessage })
IterationEvent(assistantMessage, userMsg) ==
  [event |-> "loop:iteration",
   payload |-> [assistantMessage |-> assistantMessage, userMessage |-> userMsg]]
\* this.emit('loop:maxActions', [])
MaxActionsEvent == [event |-> "loop:maxActions", payload |-> <<>>]

\* the state after new TerminalCore(options), f failures counted as injected
InitWith(f) ==
  /\ pc = [i \in Inv |-> "idle"]
  /\ pending = [i \in Inv |-> 0]
  /\ callSession = [i \in Inv |-> 0]
  /\ maxActions \in 0..MaxActionsBound
  /\ sessionId = 0
  /\ actionCount = 0
  /\ agent = 0
  /\ agentCtx = [i \in Inv |-> <<>>]
  /\ parsedArgs = [i \in Inv |-> NoArgs]
  /\ entryId = [i \in Inv |-> 0]
  /\ userMessage = [i \in Inv |-> <<>>]
  /\ terminal_status = FALSE
  /\ terminal_history = <<>>
  /\ short_term = <<>>
  /\ uuids = 0
  /\ command \in Commands
  /\ handlerOutcome \in HandlerOutcomes
  /\ faults = f
  /\ log = [i \in Inv |-> <<>>]
  /\ lastEmit = NoEmit
  /\ fullCalls = 0
  /\ fullInFlight = EmptyBag

\* notes.handler has not been called
NoResult == [op |-> "none"]
NotesIdle ==
  /\ definition = listNotesCommand
  /\ selector = Undefined
  /\ tokens = <<>>
  /\ result = NoResult

Init == InitWith(0) /\ NotesIdle
\* no store call and no subscriber fails
InitNoFaults == InitWith(MaxFaults) /\ NotesIdle

\* mutant: the message is not added to the context
AddUserMessageDropped(ctx, text) == ctx
\* this.agent.addUserMessage(text)
AddUserMessage(ctx, text) == [ctx EXCEPT ![agent] = Append(@, text)]

\* mutant: the budget test lets one more cycle through
LoopConditionOffByOne(cnt) == cnt <= maxActions
\* while (this.actionCount < this.maxActions)
LoopCondition(cnt) == cnt < maxActions

\* mutant: the counter advances by two
NextActionCountByTwo(cnt) == cnt + 2
\* this.actionCount++
NextActionCount(cnt) == cnt + 1

\* After the inner loop: emit 'loop:maxActions' and call clearShortTermHistory.
\* cnt, tr, ctx and f are the values actionCount, log[i], agentCtx and faults
\* have by then.
ExitLoop(i, cnt, tr, ctx, f) ==
  \E sub \in Oks(f) :
    /\ actionCount' = cnt
    /\ agentCtx' = ctx
    /\ faults' = Fail(f, sub)
    /\ lastEmit' = MaxActionsEvent
    /\ IF sub
       THEN /\ pc' = [pc EXCEPT ![i] = "clear"]
            /\ log' = [log EXCEPT ![i] = tr \o <<"maxActions">>]
       ELSE /\ pc' = [pc EXCEPT ![i] = "rejected"]
            /\ log' = [log EXCEPT ![i] = tr \o <<"maxActions", "maxActions:throw">>]

\* The head of the inner loop: request the next proposal or leave the loop.
LoopTest(i, cnt, tr, ctx, f) ==
  IF LoopCondition(cnt)
  THEN /\ actionCount' = cnt
       /\ agentCtx' = ctx
       /\ faults' = f
       /\ lastEmit' = lastEmit
       /\ pc' = [pc EXCEPT ![i] = "agent"]
       /\ log' = [log EXCEPT ![i] = tr \o <<"propose">>]
  ELSE ExitLoop(i, cnt, tr, ctx, f)

\* catch (error) { addUserMessage(`Error executing command: ...`); break; }
CatchAndBreak(i, message, tr, ctx, f) ==
  ExitLoop(i, actionCount, tr \o <<"addError">>,
           AddUserMessage(ctx, ErrorMessage(message)), f)

\* the block-scoped constants of the try block go out of scope
DropLocals(i) ==
  /\ callSession' = [callSession EXCEPT ![i] = 0]
  /\ parsedArgs' = [parsedArgs EXCEPT ![i] = NoArgs]
  /\ entryId' = [entryId EXCEPT ![i] = 0]
  /\ userMessage' = [userMessage EXCEPT ![i] = <<>>]

\* mutant: updateTerminalStatus(true) is not awaited, the first proposal is
\* requested at once
StartSessionStatusNotAwaited(i, pcs, logs, ctxs) ==
  /\ pc' = [pcs EXCEPT ![i] = "agent"]
  /\ log' = [logs EXCEPT ![i] = <<"propose">>]
  /\ agent' = i
  /\ agentCtx' = [ctxs EXCEPT ![i] = <<>>]
  /\ sessionId' = uuids + 1
  /\ uuids' = uuids + 1
\* runLoop() after the feature loop: new FeatherAgent, fresh session id, and
\* updateTerminalStatus(true) is awaited.  pcs, logs and ctxs are pc, log and
\* agentCtx as they are by then.
StartSession(i, pcs, logs, ctxs) ==
  /\ pc' = [pcs EXCEPT ![i] = "statusOn"]
  /\ log' = logs
  /\ agent' = i
  /\ agentCtx' = [ctxs EXCEPT ![i] = <<>>]
  /\ sessionId' = uuids + 1
  /\ uuids' = uuids + 1

\* runLoop() is called.  With features (n of them: this.features is read
\* only here) the call suspends at the first loadFeatureCommands; with none
\* it runs on to the await of updateTerminalStatus(true).  The commands the
\* features register are taken as RegisteredCommands.  The frames of
\* invocations that have returned are dropped.
RunLoopCall(i) ==
  /\ pc[i] = "idle"
  /\ \A j \in Inv : j < i => pc[j] # "idle"
  /\ \E n \in 0..MaxFeatures :
       LET pcs == [j \in Inv |-> IF Finished(j) THEN "gone" ELSE pc[j]]
           logs == [j \in Inv |-> IF j = i \/ Finished(j) THEN <<>> ELSE log[j]]
           ctxs == [j \in Inv |-> IF j = i \/ Finished(j) THEN <<>> ELSE agentCtx[j]]
       IN IF n = 0
          THEN /\ StartSession(i, pcs, logs, ctxs)
               /\ pending' = pending
          ELSE /\ pc' = [pcs EXCEPT ![i] = "called"]
               /\ pending' = [pending EXCEPT ![i] = n]
               /\ log' = logs
               /\ agentCtx' = ctxs
               /\ UNCHANGED <<agent, sessionId, uuids>>
  /\ UNCHANGED <<notesVars, storeVars>>
  /\ UNCHANGED <<callSession, maxActions, actionCount, parsedArgs, entryId, userMessage,
                 terminal_status, terminal_history, short_term, command,
                 handlerOutcome, faults, lastEmit>>

\* feature.loadFeatureCommands() returns and registerCommands(cmds) is
\* called; the next feature is loaded or, after the last, the session starts
LoadFeatureCommands(i) ==
  /\ pc[i] = "called"
  /\ pending' = [pending EXCEPT ![i] = @ - 1]
  /\ IF pending[i] > 1
     THEN UNCHANGED <<pc, log, agent, agentCtx, sessionId, uuids>>
     ELSE StartSession(i, pc, log, agentCtx)
  /\ UNCHANGED <<notesVars, storeVars>>
  /\ UNCHANGED <<callSession, maxActions, actionCount, parsedArgs, entryId, userMessage,
                 terminal_status, terminal_history, short_term, command,
                 handlerOutcome, faults, lastEmit>>

\* main() awaits runLoop(): the next call comes after the previous returned
RunLoop(i) ==
  /\ \A j \in Inv : ~Running(j)
  /\ RunLoopCall(i)

\* runLoop() is called whether or not another invocation is running
RunLoopAgain(i) == RunLoopCall(i)

\* updateTerminalStatus(true) returns; this.actionCount = 0; loop head
StatusOn(i) ==
  /\ pc[i] = "statusOn"
  /\ \E ok \in Oks(faults) :
       /\ terminal_status' = IF ok THEN TRUE ELSE terminal_status
       /\ LoopTest(i, 0, log[i] \o <<IF ok THEN "active" ELSE "active:fail">>, agentCtx,
                   Fail(faults, ok))
  /\ UNCHANGED <<notesVars, storeVars>>
  /\ UNCHANGED <<pending, callSession, maxActions, sessionId, agent, parsedArgs, entryId, userMessage,
                 terminal_history, short_term, uuids, command, handlerOutcome>>

\* mutant: a failed agent run is retried instead of ending the session
AfterAgentFailureRetry(i, tr) == LoopTest(i, actionCount, tr, agentCtx, faults)
\* if (!agentResult.success) break; if (!functionCalls?.length) break;
AfterAgentFailure(i, tr) == ExitLoop(i, actionCount, tr, agentCtx, faults)

\* what runLoop makes of an agent result: "failure", "nocalls", or the
\* outcome of parseFunctionCall on its first function call
NoParse == [threw |-> FALSE, message |-> <<>>, args |-> NoArgs]
AgentOutcome(r) ==
  IF ~r.success THEN [kind |-> "failure", parsed |-> NoParse]
  ELSE IF Len(r.functionCalls) = 0 THEN [kind |-> "nocalls", parsed |-> NoParse]
  ELSE [kind |-> "call", parsed |-> parseFunctionCall(r.functionCalls[1])]
AgentOutcomesNow == {AgentOutcome(r) : r \in AgentResultsNow}

\* agent.run() returns: failure, no function call, an invalid call, or a
\* valid one, for which createTerminalEntry is awaited
AgentRun(i) ==
  /\ pc[i] = "agent"
  /\ \E o \in AgentOutcomesNow :
       IF o.kind = "failure"
       THEN /\ AfterAgentFailure(i, log[i] \o <<"agent:failure">>)
            /\ DropLocals(i)
       ELSE IF o.kind = "nocalls"
       THEN /\ AfterAgentFailure(i, log[i] \o <<"agent:nocalls">>)
            /\ DropLocals(i)
       ELSE IF o.parsed.threw
       THEN /\ CatchAndBreak(i, o.parsed.message, log[i] \o <<"proposal:invalid">>,
                             agentCtx, faults)
            /\ DropLocals(i)
       ELSE /\ parsedArgs' = [parsedArgs EXCEPT ![i] = o.parsed.args]
            /\ callSession' = [callSession EXCEPT ![i] = sessionId]
            /\ pc' = [pc EXCEPT ![i] = "create"]
            /\ log' = [log EXCEPT ![i] = @ \o <<"proposal:valid">>]
            /\ UNCHANGED <<actionCount, agentCtx, entryId, userMessage, faults, lastEmit>>
  /\ UNCHANGED <<notesVars, storeVars>>
  /\ UNCHANGED <<pending, maxActions, sessionId, agent, terminal_status, terminal_history,
                 short_term, uuids, command, handlerOutcome>>

\* mutant: the row is inserted without the session id
NewEntryNoSession(sid, args) ==
  [session_id |-> 0, internal_thought |-> args.thought, plan |-> args.plan,
   command |-> args.command, terminal_log |-> <<>>]
\* the row createTerminalEntry inserts
NewEntry(sid, args) ==
  [session_id |-> sid, internal_thought |-> args.thought, plan |-> args.plan,
   command |-> args.command, terminal_log |-> <<>>]

\* createTerminalEntry, called with the session id of that moment, returns
\* the id of the new row, or null when the insert failed;
\* terminalCommandTool.execute is awaited
CreateTerminalEntry(i) ==
  /\ pc[i] = "create"
  /\ callSession' = [callSession EXCEPT ![i] = 0]
  /\ \E ok \in Oks(faults) :
       /\ faults' = Fail(faults, ok)
       /\ IF ok
          THEN /\ terminal_history' =
                    Append(terminal_history, NewEntry(callSession[i], parsedArgs[i]))
               /\ entryId' = [entryId EXCEPT ![i] = Len(terminal_history) + 1]
               /\ log' = [log EXCEPT ![i] = @ \o <<"create">>]
          ELSE /\ terminal_history' = terminal_history
               /\ entryId' = [entryId EXCEPT ![i] = 0]
               /\ log' = [log EXCEPT ![i] = @ \o <<"create:fail">>]
  /\ pc' = [pc EXCEPT ![i] = "exec"]
  /\ UNCHANGED <<notesVars, storeVars, lastEmit>>
  /\ UNCHANGED <<pending, maxActions, sessionId, actionCount, agent, agentCtx, parsedArgs,
                 userMessage, terminal_status, short_term, uuids, command,
                 handlerOutcome>>

\* terminalCommandTool.execute returns, or executeCommand rejects and the
\* error is rethrown into the catch block of runLoop; updateTerminalResponse
\* is awaited if there is an entry id, else the first storeTerminalMessage
\* (called with the session id of that moment)
Execute(i) ==
  /\ pc[i] = "exec"
  /\ \E returns \in Oks(faults) :
       LET commandResult == execute(parsedArgs[i], handlerOutcome, returns)
           tr == log[i] \o <<"exec">>
       IN IF commandResult.threw
          THEN /\ CatchAndBreak(i, ExecuteError, tr \o <<"exec:threw">>,
                                agentCtx, Fail(faults, returns))
               /\ DropLocals(i)
          ELSE /\ userMessage' = [userMessage EXCEPT ![i] = UserMessage(commandResult.result)]
               /\ pc' = [pc EXCEPT ![i] = IF entryId[i] # 0 THEN "update" ELSE "stm1"]
               /\ callSession' = [callSession EXCEPT ![i] =
                                    IF entryId[i] # 0 THEN 0 ELSE sessionId]
               /\ log' = [log EXCEPT ![i] = tr]
               /\ UNCHANGED <<actionCount, agentCtx, parsedArgs, entryId, faults, lastEmit>>
  /\ UNCHANGED <<notesVars, storeVars>>
  /\ UNCHANGED <<pending, maxActions, sessionId, agent, terminal_status, terminal_history,
                 short_term, uuids, command, handlerOutcome>>

\* updateTerminalResponse(entryId, userMessage) returns; the first
\* storeTerminalMessage is awaited
UpdateTerminalResponse(i) ==
  /\ pc[i] = "update"
  /\ callSession' = [callSession EXCEPT ![i] = sessionId]
  /\ \E ok \in Oks(faults) :
       /\ faults' = Fail(faults, ok)
       /\ IF ok
          THEN /\ terminal_history' =
                    [terminal_history EXCEPT ![entryId[i]].terminal_log = userMessage[i]]
               /\ log' = [log EXCEPT ![i] = @ \o <<"update">>]
          ELSE /\ terminal_history' = terminal_history
               /\ log' = [log EXCEPT ![i] = @ \o <<"update:fail">>]
  /\ pc' = [pc EXCEPT ![i] = "stm1"]
  /\ UNCHANGED <<notesVars, storeVars, lastEmit>>
  /\ UNCHANGED <<pending, maxActions, sessionId, actionCount, agent, agentCtx, parsedArgs,
                 entryId, userMessage, terminal_status, short_term, uuids, command,
                 handlerOutcome>>

\* the row storeTerminalMessage inserts
ShortTermRow(role, content, sid) == [role |-> role, content |-> content, session_id |-> sid]

\* storeTerminalMessage throws the insert error into the catch block of runLoop
AfterStoreFailure(i, tr, f) ==
  /\ CatchAndBreak(i, StoreError, tr, agentCtx, f)
  /\ DropLocals(i)

\* storeTerminalMessage(assistant) returns or throws; on success the second
\* storeTerminalMessage is awaited
StoreAssistantMessage(i) ==
  /\ pc[i] = "stm1"
  /\ \E ok \in Oks(faults) :
       IF ok
       THEN /\ short_term' = Append(short_term,
                 ShortTermRow("assistant", AssistantMessage(parsedArgs[i]), callSession[i]))
            /\ callSession' = [callSession EXCEPT ![i] = sessionId]
            /\ pc' = [pc EXCEPT ![i] = "stm2"]
            /\ log' = [log EXCEPT ![i] = @ \o <<"stm">>]
            /\ UNCHANGED <<actionCount, agentCtx, parsedArgs, entryId, userMessage, faults,
                           lastEmit>>
       ELSE /\ short_term' = short_term
            /\ AfterStoreFailure(i, log[i] \o <<"stm:fail">>, faults + 1)
  /\ UNCHANGED <<notesVars, storeVars>>
  /\ UNCHANGED <<pending, maxActions, sessionId, agent, terminal_status, terminal_history, uuids,
                 command, handlerOutcome>>

\* the insert of storeTerminalMessage(user): the row reaches the table, and
\* runLoop is resumed in a later step; or the insert fails, nothing reaches
\* the table and the error is thrown into the catch block of runLoop
StoreUserMessage(i) ==
  /\ pc[i] = "stm2"
  /\ \E ok \in Oks(faults) :
       IF ~ok
       THEN /\ short_term' = short_term
            /\ CatchAndBreak(i, StoreError, log[i] \o <<"stm:fail">>, agentCtx, faults + 1)
            /\ DropLocals(i)
       ELSE /\ short_term' = Append(short_term,
                 ShortTermRow("user", userMessage[i], callSession[i]))
            /\ callSession' = [callSession EXCEPT ![i] = 0]
            /\ pc' = [pc EXCEPT ![i] = "stm2landed"]
            /\ log' = [log EXCEPT ![i] = @ \o <<"stm">>]
            /\ UNCHANGED <<actionCount, agentCtx, parsedArgs, entryId, userMessage, faults,
                           lastEmit>>
  /\ UNCHANGED <<notesVars, storeVars>>
  /\ UNCHANGED <<pending, maxActions, sessionId, agent, terminal_status, terminal_history, uuids,
                 command, handlerOutcome>>

\* runLoop is resumed after the second storeTerminalMessage: the result is
\* added to the agent's context, 'loop:iteration' is emitted (a throwing
\* listener goes to the catch block), the action is counted and the
\* cooldown timer is awaited
CompleteIteration(i) ==
  /\ pc[i] = "stm2landed"
  /\ \E sub \in Oks(faults) :
       IF ~sub
       THEN CatchAndBreak(i, SubscriberError,
              log[i] \o <<"addUserMessage", "iteration", "iteration:throw">>,
              AddUserMessage(agentCtx, userMessage[i]), faults + 1)
       ELSE /\ actionCount' = NextActionCount(actionCount)
            /\ agentCtx' = AddUserMessage(agentCtx, userMessage[i])
            /\ faults' = faults
            /\ lastEmit' = IterationEvent(AssistantMessage(parsedArgs[i]),
                                          userMessage[i])
            /\ pc' = [pc EXCEPT ![i] = "sleep"]
            /\ log' = [log EXCEPT ![i] = @ \o <<"addUserMessage", "iteration", "count">>]
  /\ DropLocals(i)
  /\ UNCHANGED <<notesVars, storeVars>>
  /\ UNCHANGED <<pending, maxActions, sessionId, agent, terminal_status, terminal_history,
                 short_term, uuids, command, handlerOutcome>>

\* the cooldown timer fires; loop head
Cooldown(i) ==
  /\ pc[i] = "sleep"
  /\ LoopTest(i, actionCount, log[i] \o <<"slept">>, agentCtx, faults)
  /\ UNCHANGED <<notesVars, storeVars>>
  /\ UNCHANGED <<pending, callSession, maxActions, sessionId, agent, parsedArgs, entryId, userMessage,
                 terminal_status, terminal_history, short_term, uuids, command,
                 handlerOutcome>>

\* clearShortTermHistory() returns or throws (runLoop then rejects); on
\* success updateTerminalStatus(false) is awaited
ClearShortTermHistory(i) ==
  /\ pc[i] = "clear"
  /\ \E ok \in Oks(faults) :
       /\ faults' = Fail(faults, ok)
       /\ IF ok
          THEN /\ short_term' = <<>>
               /\ pc' = [pc EXCEPT ![i] = "statusOff"]
               /\ log' = [log EXCEPT ![i] = @ \o <<"clear">>]
          ELSE /\ short_term' = short_term
               /\ pc' = [pc EXCEPT ![i] = "rejected"]
               /\ log' = [log EXCEPT ![i] = @ \o <<"clear:fail">>]
  /\ UNCHANGED <<notesVars, storeVars, lastEmit>>
  /\ UNCHANGED <<pending, callSession, maxActions, sessionId, actionCount, agent, agentCtx, parsedArgs,
                 entryId, userMessage, terminal_status, terminal_history, uuids,
                 command, handlerOutcome>>

\* mutant: the unconditional break of the outer while (true) is missing:
\* this.actionCount = 0 and the inner loop is entered again
StatusOffNoBreak(i) ==
  /\ pc[i] = "statusOff"
  /\ \E ok \in Oks(faults) :
       /\ terminal_status' = IF ok THEN FALSE ELSE terminal_status
       /\ LoopTest(i, 0, log[i] \o <<IF ok THEN "inactive" ELSE "inactive:fail">>,
                   agentCtx, Fail(faults, ok))
  /\ UNCHANGED <<notesVars, storeVars>>
  /\ UNCHANGED <<pending, callSession, maxActions, sessionId, agent, parsedArgs, entryId, userMessage,
                 terminal_history, short_term, uuids, command, handlerOutcome>>
\* updateTerminalStatus(false) returns; runLoop returns
StatusOff(i) ==
  /\ pc[i] = "statusOff"
  /\ \E ok \in Oks(faults) :
       /\ faults' = Fail(faults, ok)
       /\ terminal_status' = IF ok THEN FALSE ELSE terminal_status
       /\ log' = [log EXCEPT ![i] = @ \o <<IF ok THEN "inactive" ELSE "inactive:fail">>]
  /\ pc' = [pc EXCEPT ![i] = "done"]
  /\ UNCHANGED <<notesVars, storeVars, lastEmit>>
  /\ UNCHANGED <<pending, callSession, maxActions, sessionId, actionCount, agent, agentCtx, parsedArgs,
                 entryId, userMessage, terminal_history, short_term, uuids, command,
                 handlerOutcome>>

Cycle(i) ==
  \/ LoadFeatureCommands(i)
  \/ StatusOn(i)
  \/ AgentRun(i)
  \/ CreateTerminalEntry(i)
  \/ Execute(i)
  \/ UpdateTerminalResponse(i)
  \/ StoreAssistantMessage(i)
  \/ StoreUserMessage(i)
  \/ CompleteIteration(i)
  \/ Cooldown(i)
  \/ ClearShortTermHistory(i)
  \/ StatusOff(i)

Next == \E i \in Inv : RunLoop(i) \/ Cycle(i)
Spec == Init /\ [][Next]_vars

\* null in a column of a row
Null == "<null>"
\* the row storeFullMessage inserts: the role in the command column, the
\* message in terminal_log
FullMessageRow(sid, role, content) ==
  [session_id |-> sid, internal_thought |-> Null, plan |-> Null,
   command |-> role, terminal_log |-> content]
FullMessageRoles == {"assistant", "user"}
FullMessageTexts == {<<"hello">>, <<"a longer text">>}

\* storeFullMessage(sessionId, role, content) of the store module is called
\* with the session id of the moment: the insert is awaited.  No code of the
\* repository calls it: it is a step of SpecStore only.
StoreFullMessageCall ==
  /\ fullCalls < MaxFullMessages
  /\ fullCalls' = fullCalls + 1
  /\ \E role \in FullMessageRoles, content \in FullMessageTexts :
       fullInFlight' = fullInFlight (+) SetToBag({FullMessageRow(sessionId, role, content)})
  /\ UNCHANGED <<loopVars, notesVars>>

\* the insert of a storeFullMessage call lands, in any order with the other
\* inserts, or fails: the error is logged and swallowed
StoreFullMessage ==
  \E row \in BagToSet(fullInFlight), ok \in BOOLEAN :
    /\ fullInFlight' = fullInFlight (-) SetToBag({row})
    /\ terminal_history' = IF ok THEN Append(terminal_history, row) ELSE terminal_history
    /\ UNCHANGED <<notesVars, fullCalls>>
    /\ UNCHANGED <<pc, pending, callSession, maxActions, sessionId, actionCount, agent,
                   agentCtx, parsedArgs, entryId, userMessage, terminal_status, short_term,
                   uuids, command, handlerOutcome, faults, log, lastEmit>>

\* the loop with a caller of storeFullMessage beside it; the loop's own
\* store calls and subscribers do not fail and the proposals carry one
\* command line
InitStore ==
  /\ InitNoFaults
  /\ command = CmdCreate
  /\ handlerOutcome = "output"
NextStore == Next \/ StoreFullMessageCall \/ StoreFullMessage
SpecStore == InitStore /\ [][NextStore]_vars

\* every awaited call of a running invocation returns (no store call and no
\* subscriber throws; the collaborator may still return a failure and a
\* handler may still fail): the next step of the invocation is eventually
\* taken
SpecReturns == InitNoFaults /\ [][Next]_vars /\ \A i \in Inv : WF_vars(Cycle(i))

NextOverlap == \E i \in Inv : RunLoopAgain(i) \/ Cycle(i)
SpecOverlap == InitNoFaults /\ [][NextOverlap]_vars

\* ---------------------------------------- the binder and dispatcher alone
\* the loop is not running
LoopAtRest ==
  /\ InitWith(0)
  /\ maxActions = 0
  /\ command = CmdCreate

\* a definition and a token list for the parameter loop of notes.handler
InitBind ==
  /\ LoopAtRest
  /\ handlerOutcome = "output"
  /\ definition \in Definitions
  /\ selector = definition.name
  /\ tokens \in BindTokenLists
  /\ result = NoResult

\* notes.handler from "Parse arguments" on, for the nested command definition
BindCall ==
  /\ result = NoResult
  /\ result' = [op |-> "bind",
                ret |-> BindAndRun(definition, selector, tokens, handlerOutcome)]
  /\ UNCHANGED <<loopVars, storeVars, definition, selector, tokens>>

\* the help notes.handler prints for the nested command definition: its line
\* in the general help and its own help
HelpCall ==
  /\ result = NoResult
  /\ result' = [op |-> "help", line |-> GeneralHelpLine(definition),
                detail |-> SubCommandHelp(definition)]
  /\ UNCHANGED <<loopVars, storeVars, definition, selector, tokens>>

NextBind == BindCall \/ HelpCall
SpecBind == InitBind /\ [][NextBind]_vars

\* the arguments of a call of notes.handler
InitDispatch ==
  /\ LoopAtRest
  /\ handlerOutcome \in HandlerOutcomes
  /\ definition = listNotesCommand
  /\ selector \in Selectors
  /\ tokens \in DispatchTokenLists
  /\ result = NoResult

\* notes.handler({ subcommand: selector, args: tokens })
DispatchCall ==
  /\ result = NoResult
  /\ result' = [op |-> "dispatch",
                ret |-> NotesHandler([subcommand |-> selector, args |-> tokens],
                                     handlerOutcome)]
  /\ UNCHANGED <<loopVars, storeVars, definition, selector, tokens>>

NextDispatch == DispatchCall
SpecDispatch == InitDispatch /\ [][NextDispatch]_vars

\* terminalCommandTool.execute for the command line "notes <selector>
\* <tokens>"
ExecuteCall ==
  /\ result = NoResult
  /\ selector # Undefined
  /\ \E returns \in BOOLEAN :
       result' = [op |-> "execute",
                  returns |-> returns,
                  ret |-> executeResult(
                            IF returns
                            THEN executeTokens(<<"notes", selector>> \o tokens,
                                               handlerOutcome)
                            ELSE executeRejected)]
  /\ UNCHANGED <<loopVars, storeVars, definition, selector, tokens>>

\* notes.handler as a whole: its routing on the registry and its formatting
\* and binding on every definition
InitNotes == InitBind \/ InitDispatch
NextNotes == BindCall \/ HelpCall \/ DispatchCall \/ ExecuteCall
SpecNotes == InitNotes /\ [][NextNotes]_vars

\* ------------------------------------------------------- reading the logs
Count(tr, events) == Cardinality({k \in 1..Len(tr) : tr[k] \in events})
Has(tr, events) == \E k \in 1..Len(tr) : tr[k] \in events

AgentFailures == {"agent:failure", "agent:nocalls"}
StoreFailures == {"create:fail", "update:fail", "stm:fail"}
ExitEvents ==
  {"maxActions", "maxActions:throw", "clear", "clear:fail", "inactive", "inactive:fail"}
AllFailures ==
  AgentFailures \cup StoreFailures
    \cup {"proposal:invalid", "active:fail", "exec:threw", "iteration:throw",
          "maxActions:throw", "clear:fail", "inactive:fail"}

\* the collaborator always returned a valid proposal and no handler, store
\* call or subscriber failed in invocation i
Clean(i) == ~Has(log[i], AllFailures) /\ handlerOutcome # "throw"

\* entry k of the log comes before every entry that is in events
Before(tr, k, events) == \A m \in 1..Len(tr) : tr[m] \in events => k < m

\* C1: with max-actions N, valid proposals only and no failure, a session
\* requests exactly N proposals, executes exactly N commands and creates
\* exactly N action records before it emits max-actions-reached, and then
\* clears the short-term history.
C1_ExactlyNCycles ==
  \A i \in Inv :
    Clean(i) =>
      /\ Has(log[i], {"maxActions"}) =>
           /\ Count(log[i], {"propose"}) = maxActions
           /\ Count(log[i], {"exec"}) = maxActions
           /\ Count(log[i], {"create"}) = maxActions
           /\ Count(log[i], {"maxActions"}) = 1
           /\ Cardinality({r \in 1..Len(terminal_history) :
                             terminal_history[r].session_id = sessionId}) = maxActions
           /\ \A k \in 1..Len(log[i]) :
                log[i][k] \in {"propose", "exec", "create"}
                  => Before(log[i], k, {"maxActions"})
      /\ \A k \in 1..Len(log[i]) :
           log[i][k] = "maxActions" => Before(log[i], k, {"clear"})
      /\ pc[i] \in {"statusOff", "done"} =>
           Count(log[i], {"clear"}) = 1 /\ short_term = <<>>
      /\ pc[i] \notin {"idle", "gone", "statusOff", "done"} => ~Has(log[i], {"clear"})

\* C1 witness: a clean session with the largest budget has ended
C1_Witness ==
  \E i \in Inv :
    /\ pc[i] = "done"
    /\ Clean(i)
    /\ maxActions = MaxActionsBound
    /\ Count(log[i], {"create"}) = MaxActionsBound
    /\ Has(log[i], {"clear"})

\* C2: 0 <= action-count <= max-actions in every state; action-count changes
\* only by +1, or to 0 when a session starts; a session requests at most
\* max-actions proposals and executes at most max-actions commands.
C2_CountInvariant ==
  /\ 0 <= actionCount /\ actionCount <= maxActions
  /\ \A i \in Inv :
       /\ Count(log[i], {"propose"}) <= maxActions
       /\ Count(log[i], {"exec"}) <= maxActions
C2_CountStep ==
  actionCount' # actionCount =>
    \/ actionCount' = actionCount + 1
    \/ actionCount' = 0 /\ \E i \in Inv : pc[i] = "statusOn" /\ pc'[i] # "statusOn"
C2_ActionCountBounded == [](C2_CountInvariant) /\ [][C2_CountStep]_vars

\* C2 witness: a second session has used its whole budget
C2_Witness ==
  \E i \in Inv :
    /\ uuids >= 2
    /\ pc[i] = "sleep"
    /\ maxActions = MaxActionsBound
    /\ actionCount = maxActions

\* the entries of a log that are in events, in order
RECURSIVE Filter(_, _)
Filter(tr, events) ==
  IF Len(tr) = 0 THEN <<>>
  ELSE IF Head(tr) \in events THEN <<Head(tr)>> \o Filter(Tail(tr), events)
  ELSE Filter(Tail(tr), events)

\* C3: a session that has left its cycle loop and ended has emitted
\* max-actions-reached exactly once, then cleared the short-term history,
\* then marked the status inactive, and requested no proposal after that.
C3_ExitSequence ==
  \A i \in Inv :
    Finished(i) =>
      /\ Filter(log[i], {"maxActions", "clear", "inactive", "clear:fail", "inactive:fail"})
           = <<"maxActions", "clear", "inactive">>
      /\ \A k \in 1..Len(log[i]) :
           log[i][k] = "propose" => Before(log[i], k, {"maxActions"})

\* the events of the cycle that log entry k belongs to: those after the last
\* "propose" before k
CycleStart(tr, k) ==
  IF \E m \in 1..k : tr[m] = "propose"
  THEN CHOOSE m \in 1..k : tr[m] = "propose" /\ \A n \in (m + 1)..k : tr[n] # "propose"
  ELSE 0

CycleWork ==
  {"proposal:valid", "create", "create:fail", "exec", "update", "update:fail", "stm",
   "stm:fail", "addUserMessage", "addError", "iteration", "count", "slept", "propose"}

\* C4: a cycle whose agent run failed or returned no function call does
\* nothing else: the failure follows the request directly, only the events
\* of leaving the loop follow it; the step changes neither store, nor the
\* agent's context, nor action-count.
C4_FailureState ==
  \A i \in Inv : \A k \in 1..Len(log[i]) :
    log[i][k] \in AgentFailures =>
      /\ k > 1 /\ log[i][k - 1] = "propose"
      /\ \A m \in (k + 1)..Len(log[i]) : log[i][m] \in ExitEvents
C4_FailureStep ==
  \A i \in Inv :
    (Count(log'[i], AgentFailures) > Count(log[i], AgentFailures)) =>
      /\ pc[i] = "agent"
      /\ pc'[i] \in {"clear", "rejected"}
      /\ terminal_history' = terminal_history
      /\ short_term' = short_term
      /\ agentCtx' = agentCtx
      /\ actionCount' = actionCount
C4_FailureEndsSession == [](C4_FailureState) /\ [][C4_FailureStep]_vars

\* C4 witness: an agent run failed with budget left, after one full cycle,
\* and the session has ended
C4_Witness ==
  \E i \in Inv :
    /\ pc[i] = "done"
    /\ Has(log[i], AgentFailures)
    /\ Count(log[i], {"count"}) = 1
    /\ actionCount < maxActions

Truthy(args) == \A k \in 1..Len(RequiredFields) : ~Falsy(args[RequiredFields[k]])

\* what makes a function call invalid
InvalidCall(fc) ==
  \/ fc.functionName # ToolName
  \/ fc.form = "badjson"
  \/ \E k \in 1..Len(RequiredFields) : Falsy(fc.obj[RequiredFields[k]])

\* C5: an invalid proposal is rejected before anything is persisted or
\* executed: only proposals with non-empty thought, plan and command reach
\* the store or the executor; the rejecting step changes no store and not
\* action-count, appends exactly one error message to the agent's context,
\* and only the events of leaving the loop follow it.
C5_RejectState ==
  /\ uuids = 0 => \A fc \in FunctionCalls : InvalidCall(fc) <=> parseFunctionCall(fc).threw
  /\ \A i \in Inv :
       /\ pc[i] \in {"create", "exec", "update", "stm1", "stm2", "stm2landed"} =>
            Truthy(parsedArgs[i])
       /\ \A k \in 1..Len(log[i]) :
            log[i][k] = "proposal:invalid" =>
              /\ k > 1 /\ log[i][k - 1] = "propose"
              /\ k < Len(log[i]) /\ log[i][k + 1] = "addError"
              /\ \A m \in (k + 2)..Len(log[i]) : log[i][m] \in ExitEvents
  /\ \A r \in 1..Len(terminal_history) :
       /\ ~Falsy(terminal_history[r].internal_thought)
       /\ ~Falsy(terminal_history[r].plan)
       /\ ~Falsy(terminal_history[r].command)
C5_RejectStep ==
  \A i \in Inv :
    (Count(log'[i], {"proposal:invalid"}) > Count(log[i], {"proposal:invalid"})) =>
      /\ pc[i] = "agent"
      /\ pc'[i] \in {"clear", "rejected"}
      /\ terminal_history' = terminal_history
      /\ short_term' = short_term
      /\ actionCount' = actionCount
      /\ Len(agentCtx'[agent]) = Len(agentCtx[agent]) + 1
      /\ agentCtx'[agent][Len(agentCtx'[agent])][1] = "Error executing command: "
      /\ \A a \in Inv : a # agent => agentCtx'[a] = agentCtx[a]
C5_InvalidProposalRejected == [](C5_RejectState) /\ [][C5_RejectStep]_vars

\* C5 witness: a proposal was rejected with budget left, after one full
\* cycle, and the session has ended
C5_Witness ==
  \E i \in Inv :
    /\ pc[i] = "done"
    /\ Has(log[i], {"proposal:invalid"})
    /\ Count(log[i], {"count"}) = 1
    /\ actionCount < maxActions

\* C6: a store failure in a cycle does not raise into the loop: no catch
\* block follows it, the cycle is counted and, with budget left, the next
\* proposal is requested.
C6_StoreFailureNonFatal ==
  \A i \in Inv : \A k \in 1..Len(log[i]) :
    log[i][k] \in StoreFailures =>
      /\ k < Len(log[i]) => log[i][k + 1] # "addError"
      /\ Finished(i) => \E m \in (k + 1)..Len(log[i]) : log[i][m] = "count"

\* no agent, store or subscriber failure in invocation i (the handler may throw)
NoOtherFailure(i) == ~Has(log[i], AllFailures)

\* the result text of a nested handler that threw names the nested command
NamesSubCommand(text, sub) == NonEmptyText(text) /\ sub \in Range(text)

\* C7: when the nested handler throws, execute returns a non-empty failure
\* message that names the nested command, nothing is thrown into the loop
\* (unless executeCommand itself is made to reject), the loop stores that
\* message as the result, and, nothing else failing, every cycle of the
\* budget runs.
C7_HandlerThrowContained ==
  (handlerOutcome = "throw" /\ command = CmdCreate) =>
    \A i \in Inv :
      /\ faults = 0 => ~Has(log[i], {"exec:threw"})
      /\ pc[i] \in {"update", "stm1", "stm2", "stm2landed"} =>
           /\ NamesSubCommand(userMessage[i], "create-note")
           /\ userMessage[i]
                = UserMessage(<<"(x) Error executing subcommand \"", "create-note", "\": ",
                                HandlerError>>)
      /\ (pc[i] = "stm1" /\ log[i][Len(log[i])] = "update") =>
           terminal_history[entryId[i]].terminal_log = userMessage[i]
      /\ (NoOtherFailure(i) /\ Has(log[i], {"maxActions"})) =>
           /\ Count(log[i], {"count"}) = maxActions
           /\ Count(log[i], {"update"}) = maxActions

\* C7 witness: the handler threw in every cycle of a full session
C7_Witness ==
  \E i \in Inv :
    /\ handlerOutcome = "throw" /\ command = CmdCreate
    /\ pc[i] = "done"
    /\ maxActions = MaxActionsBound
    /\ Count(log[i], {"exec"}) = MaxActionsBound
    /\ Count(log[i], {"count"}) = MaxActionsBound

\* C8: a throwing subscriber does not abort the loop: after a failed
\* iteration subscriber the cycle is counted, and after a failed
\* max-actions-reached subscriber the session still clears the short-term
\* history and marks the status inactive.
C8_SubscriberFailureNonFatal ==
  \A i \in Inv :
    /\ \A k \in 1..Len(log[i]) :
         log[i][k] = "iteration:throw" => (k < Len(log[i]) /\ log[i][k + 1] = "count")
    /\ (Finished(i) /\ Has(log[i], {"maxActions:throw"})) =>
         (Has(log[i], {"clear"}) /\ Has(log[i], {"inactive"}))

\* C9: at most one session is running at any time, and a running session's
\* session id is the one it allocated.
C9_SingleSession ==
  /\ Cardinality({i \in Inv : Running(i)}) <= 1
  /\ \A i \in Inv : Running(i) => sessionId = i

AgentReturns == AgentFailures \cup {"proposal:invalid", "proposal:valid"}
CreateReturns == {"create", "create:fail"}

\* C10: one invocation has at most one proposal request and at most one
\* command execution in flight, and it requests a further proposal only
\* after the previous cycle's command has returned and its result has been
\* added to the agent's context.
C10_State ==
  \A i \in Inv :
    /\ Count(log[i], {"propose"}) - Count(log[i], AgentReturns) \in {0, 1}
    /\ Count(log[i], CreateReturns) - Count(log[i], {"exec"}) \in {0, 1}
    /\ (Count(log[i], {"propose"}) - Count(log[i], AgentReturns) = 1) <=> pc[i] = "agent"
    /\ (Count(log[i], CreateReturns) - Count(log[i], {"exec"}) = 1) <=> pc[i] = "exec"
    /\ \A k \in 1..Len(log[i]) :
         (log[i][k] = "propose" /\ Count(SubSeq(log[i], 1, k), {"propose"}) > 1) =>
           /\ Count(SubSeq(log[i], 1, k), {"exec"})
                = Count(SubSeq(log[i], 1, k), {"propose"}) - 1
           /\ Count(SubSeq(log[i], 1, k), {"addUserMessage"})
                = Count(SubSeq(log[i], 1, k), {"propose"}) - 1
C10_Step ==
  \A i \in Inv :
    (pc[i] = "sleep" /\ pc'[i] = "agent") =>
      /\ Len(agentCtx[agent]) = Count(log[i], {"exec"})
      /\ Len(agentCtx[agent]) > 0
      /\ Len(short_term) > 0
      /\ agentCtx[agent][Len(agentCtx[agent])] = short_term[Len(short_term)].content
      /\ short_term[Len(short_term)].role = "user"
C10_Sequential == [](C10_State) /\ [][C10_Step]_vars

\* C10 witness: a second proposal of a session is in flight
C10_Witness ==
  \E i \in Inv :
    /\ pc[i] = "agent"
    /\ Count(log[i], {"propose"}) = 2
    /\ Count(log[i], {"exec"}) = 1

\* C11: after a cycle is counted, the loop waits for the cooldown only if
\* action-count is still below max-actions; no cooldown wait comes between
\* the last action of the budget and the max-actions-reached event.
C11_CooldownOnlyBelowBudget ==
  \A i \in Inv :
    /\ pc[i] = "sleep" => actionCount < maxActions
    /\ \A k \in 2..Len(log[i]) : log[i][k] = "maxActions" => log[i][k - 1] # "slept"

\* C12: once a session has started, no failure of the collaborator, of a
\* handler, of a store call or of a subscriber makes runLoop reject (main
\* exits the process with code 1 when it does).
C12_RunLoopNeverRaises ==
  \A i \in Inv : Has(log[i], {"active", "active:fail"}) => pc[i] # "rejected"

\* ------------------------------------------------- reading a binder result
Params == definition.parameters
\* parameter k takes all remaining tokens
Slurps(k) ==
  /\ k = Len(Params)
  /\ Params[k].required
  /\ Params[k].type \in {"string", Undefined}
BindDone == result.op = "bind"
BindOk == BindDone /\ ~result.ret.threw
BindFailed == BindDone /\ result.ret.threw

\* tokens lo..hi, each two neighbours separated by one blank
RECURSIVE SpacedJoin(_, _, _)
SpacedJoin(toks, lo, hi) ==
  IF hi < lo THEN ""
  ELSE IF hi = lo THEN toks[lo]
  ELSE SpacedJoin(toks, lo, hi - 1) \o " " \o toks[hi]

\* the value of a parameter that takes the one token at position k
OneToken(k) ==
  IF k > Len(tokens) THEN UndefVal
  ELSE IF Params[k].type = "number" THEN NumVal(NumberTable[tokens[k]])
  ELSE StrVal(tokens[k])

\* C13: in a binding that succeeds, a parameter that is the last one,
\* required and string-typed or untyped holds all remaining tokens joined
\* with single blanks in their order; every other parameter holds the one
\* token at its own position (each parameter before it took exactly one).
C13_SlurpLastRequiredString ==
  /\ BindOk =>
       \A k \in 1..Len(Params) :
         result.ret.values[Params[k].name]
           = IF Slurps(k) THEN StrVal(SpacedJoin(tokens, k, Len(tokens)))
             ELSE OneToken(k)
  /\ (BindDone /\ definition = createNoteCommand /\ tokens = <<"xyz", "42", "xyz">>) =>
       /\ ~result.ret.threw
       /\ result.ret.values["content"] = StrVal("xyz 42 xyz")

\* C13 witness: a number parameter took one token and the last parameter
\* the two that remained
C13_Witness ==
  /\ BindOk
  /\ result.ret.called
  /\ Len(Params) = 2
  /\ Params[1].type = "number"
  /\ Slurps(2)
  /\ tokens = <<"42", "xyz", "42">>
  /\ result.ret.values[Params[2].name] = StrVal("xyz 42")

\* parameter k takes one token, there is one for it, and it converts
TokenFits(k) ==
  k <= Len(tokens) => (Params[k].type = "number" => tokens[k] \notin {"xyz"})
\* parameter k is required, takes one token, and no token is left for it
LacksToken(k) == Params[k].required /\ ~Slurps(k) /\ k > Len(tokens)
\* the binder gets to parameter k: no parameter before it fails
Reaches(k) == \A j \in 1..(k - 1) : TokenFits(j) /\ ~LacksToken(j)

\* C14: when the binder gets to a required parameter that takes one token
\* and no token is left, the binding fails with the error that names that
\* parameter and no other, and the nested handler is not called.
C14_MissingRequiredToken ==
  BindDone =>
    \A k \in 1..Len(Params) :
      (LacksToken(k) /\ Reaches(k)) =>
        /\ result.ret.threw
        /\ result.ret.error = <<"Missing required parameter: ", Params[k].name>>
        /\ ~result.ret.called
        /\ result.ret.output = <<>>

\* C14 witness: the first parameter took a token, the second is a required
\* number and nothing is left for it
C14_Witness ==
  /\ BindFailed
  /\ Len(Params) = 2
  /\ Len(tokens) = 1
  /\ Params[2].required /\ Params[2].type = "number"
  /\ result.ret.error = <<"Missing required parameter: ", "p2">>

\* C15: a number-typed parameter that consumes the token "xyz" makes the
\* binding fail with the error naming that parameter, and the nested handler
\* is not called; one that consumes "42" is bound to the number 42, not to
\* the string "42".
C15_NumberParameter ==
  BindDone =>
    /\ \A k \in 1..Len(Params) :
         (Params[k].type = "number" /\ k <= Len(tokens)) =>
           /\ (tokens[k] = "xyz" /\ Reaches(k)) =>
                /\ result.ret.threw
                /\ result.ret.error = <<"Parameter '", Params[k].name, "' must be a number.">>
                /\ ~result.ret.called
           /\ (tokens[k] = "42" /\ ~result.ret.threw) =>
                /\ result.ret.values[Params[k].name] = [num |-> 42]
                /\ result.ret.values[Params[k].name] # [str |-> "42"]
    /\ (definition = deleteNoteCommand /\ tokens = <<"xyz">>) =>
         result.ret.threw /\ ~result.ret.called
    /\ (definition = deleteNoteCommand /\ tokens = <<"42">>) =>
         ~result.ret.threw /\ result.ret.values["noteId"] = [num |-> 42]

\* C15 witness: the second parameter is a number and its token is "xyz"
C15_Witness ==
  /\ BindFailed
  /\ Len(Params) = 2
  /\ Params[2].type = "number"
  /\ tokens = <<"42", "xyz">>
  /\ result.ret.error = <<"Parameter '", "p2", "' must be a number.">>

ParamNamesOf(cmd) == {cmd.parameters[k].name : k \in 1..Len(cmd.parameters)}
\* the two errors of the binder for the parameter called name
BindingErrors(name) ==
  {<<"Missing required parameter: ", name>>, <<"Parameter '", name, "' must be a number.">>}

\* C16: every binding ends either in an argument record whose keys are
\* exactly the names of the definition's parameters, handed to the nested
\* handler, or in a binding error that names one parameter of the
\* definition, and never in both.
C16_RecordOrError ==
  BindDone =>
    IF result.ret.threw
    THEN /\ \E name \in ParamNamesOf(definition) : result.ret.error \in BindingErrors(name)
         /\ Cardinality({name \in ParamNamesOf(definition) :
                           result.ret.error \in BindingErrors(name)}) = 1
         /\ result.ret.values = <<>>
         /\ ~result.ret.called
    ELSE /\ DOMAIN result.ret.values = ParamNamesOf(definition)
         /\ result.ret.error = <<>>
         /\ result.ret.called

\* C16 witness: a binding of three tokens to two parameters has succeeded,
\* and the record has the two keys
C16_Witness ==
  /\ BindOk
  /\ Len(Params) = 2
  /\ Len(tokens) = 3
  /\ DOMAIN result.ret.values = {"p1", "p2"}

\* parameter k is optional and no token is left for it
Unfilled(k) == ~Params[k].required /\ k > Len(tokens)
\* no parameter fails: each token converts and no required one is lacking
NothingFails == \A j \in 1..Len(Params) : TokenFits(j) /\ ~LacksToken(j)

\* C17: an optional parameter that gets no token is bound to undefined,
\* whatever default it declares, and the binding does not fail at it: no
\* binder error names it, and the binding succeeds when no other parameter
\* fails.
C17_OptionalUnfilled ==
  BindDone =>
    /\ \A k \in 1..Len(Params) :
         Unfilled(k) =>
           /\ result.ret.threw => result.ret.error \notin BindingErrors(Params[k].name)
           /\ ~result.ret.threw =>
                /\ result.ret.values[Params[k].name] = UndefVal
                /\ result.ret.values[Params[k].name] # StrVal(Params[k].defaultValue)
    /\ NothingFails => ~result.ret.threw

\* C17 witness: the second parameter is optional, declares the default "d"
\* and gets no token; the handler was called with it undefined
C17_Witness ==
  /\ BindOk
  /\ result.ret.called
  /\ Len(Params) = 2
  /\ Len(tokens) = 1
  /\ Unfilled(2)
  /\ Params[2].defaultValue = "d"
  /\ result.ret.values["p2"] = UndefVal

\* ---------------------------------------------- reading a dispatch result
DispatchDone == result.op = "dispatch"
NestedNames == {notesSubCommands[k].name : k \in 1..Len(notesSubCommands)}

\* C18: notes.handler called with a selector that is neither "help" nor the
\* name of a nested command returns, without throwing and without calling a
\* nested handler, a result that says the sub-command is unknown, names the
\* selector and suggests "notes help".
C18_UnknownSubCommand ==
  (DispatchDone /\ selector \notin ({Undefined, "help"} \cup NestedNames)) =>
    /\ ~result.ret.threw
    /\ ~result.ret.called
    /\ result.ret.output
         = <<"Unknown notes sub-command: ", selector, ". Try \"notes help\".">>

\* C18 witness: "notes zzz" with two more tokens, the nested handlers would throw
C18_Witness ==
  /\ DispatchDone
  /\ selector = "zzz"
  /\ Len(tokens) = 2
  /\ handlerOutcome = "throw"
  /\ result.ret.output[1] = "Unknown notes sub-command: "

HelpDone == result.op = "help"

\* the signature of a definition: <name> for a required parameter, [name]
\* for an optional one, in order, separated by one blank
Signature(cmd) ==
  SpacedJoin([k \in 1..Len(cmd.parameters) |->
                IF cmd.parameters[k].required
                THEN "<" \o cmd.parameters[k].name \o ">"
                ELSE "[" \o cmd.parameters[k].name \o "]"],
             1, Len(cmd.parameters))

RECURSIVE Blanks(_)
Blanks(n) == IF n <= 0 THEN "" ELSE " " \o Blanks(n - 1)

\* the line of a nested command in the summary: name and signature in a
\* column of 30 characters, then the description
SummaryLine(cmd) ==
  LET head == cmd.name \o " " \o Signature(cmd)
  IN head \o Blanks(30 - Len(head)) \o " - " \o cmd.description

\* number of lines of a text made by joining lines with "\n"
LineCount(text) == (Len(text) + 1) \div 2
Line(text, k) == text[2 * k - 1]

\* C19: "notes help" without further tokens returns, without calling a nested
\* handler, a summary with one line per nested command, in registry order,
\* after three heading lines; the line of a command gives its name, its
\* signature (<name> required, [name] optional) and its description.
C19_GeneralHelp ==
  /\ (DispatchDone /\ selector = "help" /\ tokens = <<>>) =>
       /\ ~result.ret.threw
       /\ ~result.ret.called
       /\ LineCount(result.ret.output) = 3 + Len(notesSubCommands)
       /\ \A k \in 1..(LineCount(result.ret.output) - 1) : result.ret.output[2 * k] = "\n"
       /\ \A k \in 1..Len(notesSubCommands) :
            Line(result.ret.output, 3 + k) = SummaryLine(notesSubCommands[k])
       /\ \A k \in 1..3 : \A j \in 1..Len(notesSubCommands) :
            Line(result.ret.output, k) # SummaryLine(notesSubCommands[j])
  /\ HelpDone => result.line = SummaryLine(definition)

\* C19 witness: "notes help" has returned the summary
C19_Witness ==
  /\ DispatchDone
  /\ selector = "help"
  /\ tokens = <<>>
  /\ handlerOutcome = "throw"
  /\ Line(result.ret.output, 4)
       = "create-note <content>          - Create a new note. Usage: notes create-note \"<note content>\""

\* the help line of a parameter: name, type if it has one, description,
\* required/optional flag, and the default if one is declared
ParamDetail(param) ==
  "  " \o param.name
       \o (IF param.type = Undefined THEN "" ELSE " <" \o param.type \o ">")
       \o ": " \o param.description \o " "
       \o (IF param.required THEN "(Required)" ELSE "(Optional)")
       \o (IF param.defaultValue = Undefined THEN ""
           ELSE " [default: " \o param.defaultValue \o "]")

\* text is the help of the one command cmd: six lines on the command, then
\* a heading and one line for each of its parameters
IsDetailHelp(text, cmd) ==
  /\ LineCount(text)
       = 6 + (IF Len(cmd.parameters) > 0 THEN 1 + Len(cmd.parameters) ELSE 0)
  /\ Line(text, 1) = "Command: notes " \o cmd.name
  /\ Line(text, 5) = "  notes " \o cmd.name \o " " \o Signature(cmd)
  /\ \A k \in 1..Len(cmd.parameters) : Line(text, 7 + k) = ParamDetail(cmd.parameters[k])

\* no parameter of cmd declares the empty string as its default; this holds
\* of every command of the registry, none of which declares a default
NoEmptyDefault(cmd) ==
  \A k \in 1..Len(cmd.parameters) : cmd.parameters[k].defaultValue # ""

\* C20: "notes help <name>" returns the help of that nested command only,
\* one line per parameter with its type, its required/optional flag and its
\* default whenever one is declared; a name that matches no nested command
\* gets the unknown sub-command message; no nested handler is called. The
\* first conjunct is every dispatch of "help" with further tokens; the
\* second is the same text for definitions beyond the registry's, whose
\* parameters may declare a default.
C20_SubCommandHelp ==
  /\ (DispatchDone /\ selector = "help" /\ Len(tokens) > 0) =>
       /\ ~result.ret.threw
       /\ ~result.ret.called
       /\ IF tokens[1] \in NestedNames
          THEN IsDetailHelp(result.ret.output, notesSubCommands[FindSubCommand(tokens[1])])
          ELSE /\ result.ret.output[1] = "Unknown notes sub-command: "
               /\ result.ret.output[2] = tokens[1]
  /\ (HelpDone /\ NoEmptyDefault(definition)) => IsDetailHelp(result.detail, definition)

\* C20 witness: "notes help delete-note xyz" with nested handlers that would
\* throw: the help of delete-note alone, its one parameter with its type
\* and its required flag
C20_Witness ==
  /\ DispatchDone
  /\ selector = "help"
  /\ tokens = <<"delete-note", "xyz">>
  /\ handlerOutcome = "throw"
  /\ ~result.ret.called
  /\ LineCount(result.ret.output) = 8
  /\ Line(result.ret.output, 1) = "Command: notes delete-note"
  /\ Line(result.ret.output, 8) = "  noteId <number>: ID of the note to delete (Required)"

\* execute was called and executeCommand returned a result
ExecuteDone == result.op = "execute" /\ result.returns
\* the selector routes to the registry's definition held in definition, and
\* the tokens make its binding fail
RoutedBindingFails ==
  /\ selector \in NestedNames
  /\ definition = notesSubCommands[FindSubCommand(selector)]
  /\ ~NothingFails
AllBindingErrors == UNION {BindingErrors(name) : name \in ParamNamesOf(definition)}

\* C21 as claimed: when the binding of a nested command fails, notes.handler
\* returns a result that carries the failure message, and execute does not
\* raise.
C21_DispatchReturnsFailureText ==
  /\ (DispatchDone /\ RoutedBindingFails) =>
       /\ ~result.ret.threw
       /\ \E e \in AllBindingErrors : \E k \in 1..Len(result.ret.output) :
            result.ret.output[k] = e[2]
  /\ (ExecuteDone /\ RoutedBindingFails) => ~result.ret.threw

\* C21 as amended: when the binding of a nested command fails, notes.handler
\* throws the binding error, which names the parameter, and calls no nested
\* handler; execute returns a result whose text carries that message and
\* raises nothing.
C21_BindingFailureRendered ==
  /\ (DispatchDone /\ RoutedBindingFails) =>
       /\ result.ret.threw
       /\ ~result.ret.called
       /\ result.ret.error \in AllBindingErrors
  /\ (ExecuteDone /\ RoutedBindingFails) =>
       /\ ~result.ret.threw
       /\ \E e \in AllBindingErrors :
            result.ret.result = <<"Error executing command: ">> \o e

\* C21 witness: "notes edit-note xyz" was executed and the result text is
\* the binding error for noteId
C21_Witness ==
  /\ ExecuteDone
  /\ selector = "edit-note"
  /\ tokens = <<"xyz">>
  /\ RoutedBindingFails
  /\ result.ret.result
       = <<"Error executing command: ", "Parameter '", "noteId", "' must be a number.">>

\* the events of a cycle that is counted, with and without an entry id
FullCycles ==
  {<<"propose", "proposal:valid", "create", "exec", u, "stm", "stm", "addUserMessage",
     "iteration", "count">> : u \in {"update", "update:fail"}}
  \cup {<<"propose", "proposal:valid", "create:fail", "exec", "stm", "stm",
          "addUserMessage", "iteration", "count">>}
LastEvent(tr) == IF Len(tr) = 0 THEN "none" ELSE tr[Len(tr)]

\* C22: a counted cycle consists of: record creation, command execution,
\* update of the record, assistant message then result message stored,
\* result added to the context, iteration event, count, in this order.  The
\* update is made on the row this cycle created and sets its result; it is
\* skipped, the command still being executed, when the creation returned no
\* id.  The iteration event carries the two texts that were stored.
C22_CycleOrder ==
  \A i \in Inv :
    /\ \A k \in 1..Len(log[i]) :
         log[i][k] = "count" =>
           SubSeq(log[i], CycleStart(log[i], k), k) \in FullCycles
    /\ (pc[i] = "stm1" /\ LastEvent(log[i]) \in {"update", "update:fail"}) =>
         /\ entryId[i] = Len(terminal_history)
         /\ terminal_history[entryId[i]].session_id = sessionId
         /\ terminal_history[entryId[i]].command = parsedArgs[i].command
         /\ LastEvent(log[i]) = "update" =>
              terminal_history[entryId[i]].terminal_log = userMessage[i]
         /\ LastEvent(log[i]) = "update:fail" =>
              terminal_history[entryId[i]].terminal_log = <<>>
    /\ pc[i] = "update" => entryId[i] # 0
    /\ (pc[i] = "stm1" /\ LastEvent(log[i]) = "exec") =>
         /\ entryId[i] = 0
         /\ log[i][Len(log[i]) - 1] = "create:fail"
         /\ NonEmptyText(userMessage[i])
    /\ pc[i] = "sleep" =>
         /\ Len(short_term) >= 2
         /\ short_term[Len(short_term) - 1].role = "assistant"
         /\ short_term[Len(short_term)].role = "user"
         /\ lastEmit = [event |-> "loop:iteration",
                        payload |->
                          [assistantMessage |-> short_term[Len(short_term) - 1].content,
                           userMessage |-> short_term[Len(short_term)].content]]
         /\ agentCtx[agent][Len(agentCtx[agent])] = short_term[Len(short_term)].content
         /\ actionCount = Count(log[i], {"count"})

\* C22 witness: two cycles are counted, one whose record creation failed
\* and one whose record was updated
C22_Witness ==
  \E i \in Inv :
    /\ pc[i] = "sleep"
    /\ Count(log[i], {"count"}) = 2
    /\ Has(log[i], {"create:fail"})
    /\ Has(log[i], {"update"})

StatusOnCalls == {"active", "active:fail"}
StatusOffCalls == {"inactive", "inactive:fail"}

\* C23: a runLoop invocation that has called updateTerminalStatus(true) and
\* has ended has called updateTerminalStatus(false), on every path out of
\* the session.
C23_StatusMarkedInactive ==
  \A i \in Inv :
    (Finished(i) /\ Has(log[i], StatusOnCalls)) => Has(log[i], StatusOffCalls)

\* the positions of the events of es in the trace tr
Positions(tr, es) == {k \in 1..Len(tr) : tr[k] \in es}

\* C24: within an invocation updateTerminalStatus(true) is called once,
\* before every proposal request and every command execution, and
\* updateTerminalStatus(false) at most once, after all of them; while a
\* proposal or an execution is awaited after a status call that succeeded,
\* the stored status is active.
C24_WorkBetweenStatusCalls ==
  \A i \in Inv :
    LET on == Positions(log[i], StatusOnCalls)
        off == Positions(log[i], StatusOffCalls)
        work == Positions(log[i], {"propose", "exec"})
    IN /\ Cardinality(on) <= 1
       /\ Cardinality(off) <= 1
       /\ pc[i] \in {"idle", "called", "statusOn"} => work = {}
       /\ \A w \in work : /\ \E a \in on : a < w
                          /\ \A b \in off : w < b
       /\ (pc[i] \in {"agent", "exec"} /\ Has(log[i], {"active"})) => terminal_status
       /\ pc[i] \in {"agent", "exec"} => off = {}

C24_Witness ==
  \E i \in Inv :
    /\ pc[i] = "done"
    /\ Has(log[i], {"inactive"})
    /\ Count(log[i], {"propose"}) = 2
    /\ Count(log[i], {"exec"}) = 2

\* C25: when the 'loop:maxActions' event is emitted after at least one
\* completed cycle, its payload is a non-empty history snapshot.
C25_MaxActionsCarriesHistory ==
  \A i \in Inv :
    (/\ LastEvent(log[i]) = "maxActions"
     /\ lastEmit.event = "loop:maxActions"
     /\ Count(log[i], {"count"}) >= 1) => lastEmit.payload # <<>>

Ended == {"done", "rejected", "gone"}

\* C26: when every awaited call returns, a runLoop invocation that has
\* started ends; it requests at most max-actions proposals and counts at
\* most max-actions cycles; after a successful updateTerminalStatus(false)
\* the stored status is inactive; an invocation that has ended does nothing
\* more, and a session id is allocated only by a call of runLoop.
C26_RunLoopTerminates ==
  /\ [](\A i \in Inv :
          /\ Count(log[i], {"propose"}) <= maxActions
          /\ Count(log[i], {"count"}) <= maxActions
          /\ (pc[i] = "done" /\ Has(log[i], {"inactive"})) => ~terminal_status)
  /\ [][\A i \in Inv :
          /\ pc[i] \in Ended => pc'[i] \in Ended
          /\ Finished(i) => (pc'[i] = pc[i] => log'[i] = log[i])]_vars
  /\ [][sessionId' # sessionId =>
          \E i \in Inv : pc[i] \in {"idle", "called"} /\ pc'[i] = "statusOn"]_vars
  /\ \A i \in Inv : (pc[i] \in {"called", "statusOn"}) ~> (pc[i] \in Ended)

C26_Witness ==
  \E i \in Inv :
    /\ pc[i] = "done"
    /\ maxActions = MaxActionsBound
    /\ Count(log[i], {"count"}) = maxActions
    /\ Has(log[i], {"inactive"})
    /\ sessionId = MaxRuns

\* the rows of a table that carry session id sid
RowsOf(table, sid) == {r \in 1..Len(table) : table[r].session_id = sid}

\* C27: with awaited runLoop calls, the id of the current invocation is the
\* one allocated last and differs from the id of every earlier invocation;
\* every record and every short-term message the invocation has written
\* carries it, and the records of earlier invocations keep their own ids.
C27_SessionIdStable ==
  /\ sessionId = uuids
  /\ \A r \in 1..Len(terminal_history) : terminal_history[r].session_id \in 1..uuids
  /\ \A r, q \in 1..Len(terminal_history) :
        r < q => terminal_history[r].session_id <= terminal_history[q].session_id
  /\ \A i \in Inv :
        ((Running(i) /\ pc[i] # "called") \/ Finished(i)) =>
          /\ Cardinality(RowsOf(terminal_history, sessionId)) = Count(log[i], {"create"})
          /\ ~Has(log[i], {"clear"}) =>
                /\ Cardinality(RowsOf(short_term, sessionId)) = Count(log[i], {"stm"})
                /\ Len(short_term) >= Count(log[i], {"stm"})

C27_Witness ==
  \E i \in Inv :
    /\ pc[i] = "sleep"
    /\ sessionId = 2
    /\ Count(log[i], {"create"}) = 2
    /\ Count(log[i], {"stm"}) = 4
    /\ RowsOf(terminal_history, 1) # {}

\* the records of session sid whose result text is not set
EmptyRows(sid) == {r \in RowsOf(terminal_history, sid) : terminal_history[r].terminal_log = <<>>}

\* C28: when an invocation has ended, no record of its session has
\* an empty result text.
C28_NoEmptyRecordAtEnd ==
  \A i \in Inv : Finished(i) => EmptyRows(sessionId) = {}

\* C29: in a binding that succeeds, no required parameter is bound to
\* undefined or to the empty string.
C29_RequiredNeverEmpty ==
  BindOk =>
    \A k \in 1..Len(Params) :
      Params[k].required => result.ret.values[Params[k].name] \notin {UndefVal, StrVal("")}

\* the definition has no parameter that takes all remaining tokens, and
\* there are more tokens than parameters
SurplusTokens ==
  /\ Len(tokens) > Len(Params)
  /\ Len(Params) > 0 => ~Slurps(Len(Params))
Truncated == SubSeq(tokens, 1, Len(Params))

\* C30 as claimed: with more tokens than parameters and no slurping
\* parameter the binding succeeds, and the bound values are those of the
\* token list truncated to the number of parameters.
C30_SurplusBindingSucceeds ==
  (BindDone /\ SurplusTokens) =>
    /\ ~result.ret.threw
    /\ ~Bind(definition, Truncated).threw
    /\ result.ret.values = Bind(definition, Truncated).values

\* C30: with more tokens than parameters and no slurping parameter, the
\* surplus tokens cause no error and are dropped: the outcome is the one of
\* the token list truncated to the number of parameters; when each of the
\* first tokens converts, the binding succeeds, the nested handler is called
\* and each parameter holds the token at its own position; a failure names
\* a number parameter whose own token is no number.
C30_SurplusTokensDropped ==
  (BindDone /\ SurplusTokens) =>
    /\ result.ret = BindAndRun(definition, selector, Truncated, handlerOutcome)
    /\ (\A k \in 1..Len(Params) : TokenFits(k)) =>
          /\ ~result.ret.threw
          /\ result.ret.called
          /\ DOMAIN result.ret.values = ParamNamesOf(definition)
          /\ \A k \in 1..Len(Params) : result.ret.values[Params[k].name] = OneToken(k)
    /\ result.ret.threw =>
          \E k \in 1..Len(Params) :
            /\ ~TokenFits(k)
            /\ result.ret.error = <<"Parameter '", Params[k].name, "' must be a number.">>
    /\ Len(Params) = 0 => (~result.ret.threw /\ result.ret.values = <<>>)

\* C30 witness: two tokens for the one number parameter of delete-note
C30_Witness ==
  /\ BindOk
  /\ SurplusTokens
  /\ definition = deleteNoteCommand
  /\ tokens = <<"42", "xyz">>
  /\ result.ret.values["noteId"] = NumVal(42)
  /\ result.ret.called

====
